---- MODULE Spec2Model ----
(***************************************************************************)
(* Model of verify_player.py: a linear Playwright smoke test.  One script   *)
(* invocation enters the sync_playwright() context, runs run(playwright)    *)
(* and leaves the context.  Every browser-automation call either returns    *)
(* or raises; what each call does is decided by the environment (the web    *)
(* server and the browser), which is fixed for a behaviour in `env`.        *)
(***************************************************************************)
EXTENDS Integers, Sequences, FiniteSets

\* range(30) of the polling loop.
MaxAttempts == 30

\* Number of successive invocations of the script that are explored.
MaxRuns == 2

\* path= argument of page.screenshot.
ScreenshotPath == "verification_controls.png"

\* Automation calls of run() that can raise, in program order.
FailableSteps ==
    {"launch", "new_page", "fill", "click", "wait_video", "move1", "move2",
     "is_visible", "screenshot", "close"}

\* The steps that follow the polling loop, in program order.
PostSteps ==
    <<"fill", "click", "wait_video", "sleep_metadata", "move1", "move2",
      "sleep_transition", "is_visible", "screenshot", "close">>

VARIABLES
    env,        \* behaviour of server and browser: [readyAt, failAt, visible]
    run,        \* number of the current script invocation
    pc,         \* position in the script
    i,          \* loop variable of the polling loop
    driver,     \* sync_playwright context: "none" | "started" | "stopped"
    browser,    \* browser session: "none" | "open" | "closed" | "killed"
    raised,     \* message of the exception in flight, "none" if there is none
    raisedAt,   \* the step that raised it
    controls,   \* result of controls.is_visible(): "unknown" | "visible" | "hidden"
    trace,      \* calls completed in this invocation, in order
    out,        \* lines printed in this invocation
    writes,     \* files written in this invocation, in order
    files,      \* files present in the working directory (persists across runs)
    prev        \* summaries of the earlier invocations

vars ==
    <<env, run, pc, i, driver, browser, raised, raisedAt, controls, trace, out,
      writes, files, prev>>

Envs ==
    [readyAt : 1..(MaxAttempts + 1),
     failAt  : FailableSteps \cup {"none"},
     visible : BOOLEAN]

\* State of a fresh process, before `with sync_playwright()` is entered.
Init ==
    /\ env \in Envs
    /\ run = 1
    /\ pc = "enter"
    /\ i = 0
    /\ driver = "none"
    /\ browser = "none"
    /\ raised = "none"
    /\ raisedAt = "none"
    /\ controls = "unknown"
    /\ trace = <<>>
    /\ out = <<>>
    /\ writes = <<>>
    /\ files = {}
    /\ prev = <<>>

\* The automation call `step` raises in this environment.
Fails(step) == env.failAt = step

\* page.goto succeeds on attempt number a (1-based) once the server is up.
GotoSucceeds(a) == a >= env.readyAt

\* The for loop is exhausted once range(30) has no next value.
\* Variant: the bound compared off by one (a 31st attempt).
LoopExhaustedOffByOne(j) == j > MaxAttempts
LoopExhausted(j) == j >= MaxAttempts

\* An uncaught exception leaves run() and unwinds to the with statement.
Propagate(msg, step) ==
    /\ raised' = msg
    /\ raisedAt' = step
    /\ pc' = "exit"

NoRaise == UNCHANGED <<raised, raisedAt>>

\* with sync_playwright() as playwright:
Enter ==
    /\ pc = "enter"
    /\ driver' = "started"
    /\ pc' = "launch"
    /\ UNCHANGED <<env, run, i, browser, raised, raisedAt, controls, trace, out,
                   writes, files, prev>>

\* browser = playwright.chromium.launch(headless=True)
Launch ==
    /\ pc = "launch"
    /\ IF Fails("launch")
         THEN /\ Propagate("PlaywrightError", "launch")
              /\ UNCHANGED <<browser, trace>>
         ELSE /\ browser' = "open"
              /\ trace' = Append(trace, "launch")
              /\ pc' = "new_page"
              /\ NoRaise
    /\ UNCHANGED <<env, run, i, driver, controls, out, writes, files, prev>>

\* context = browser.new_context(...); page = context.new_page(); print
NewPage ==
    /\ pc = "new_page"
    /\ IF Fails("new_page")
         THEN /\ Propagate("PlaywrightError", "new_page")
              /\ UNCHANGED <<trace, out>>
         ELSE /\ trace' = Append(trace, "new_page")
              /\ out' = Append(out, <<"Navigating to home page...">>)
              /\ pc' = "goto"
              /\ NoRaise
    /\ UNCHANGED <<env, run, i, driver, browser, controls, writes, files, prev>>

\* for i in range(30): try: page.goto(...); break / except: print(...)
\* Variant: no sleep after the last failed attempt.
GotoSkipLastSleep ==
    /\ pc = "goto"
    /\ IF GotoSucceeds(i + 1)
         THEN /\ trace' = Append(trace, "goto_ok")
              /\ pc' = "fill"
              /\ out' = out
         ELSE /\ trace' = Append(trace, "goto_fail")
              /\ out' = Append(out, <<"Waiting for server...", i>>)
              /\ pc' = IF LoopExhausted(i + 1) THEN "raise_else" ELSE "sleep_poll"
    /\ UNCHANGED <<env, run, i, driver, browser, raised, raisedAt, controls,
                   writes, files, prev>>

Goto ==
    /\ pc = "goto"
    /\ IF GotoSucceeds(i + 1)
         THEN /\ trace' = Append(trace, "goto_ok")
              /\ pc' = "fill"
              /\ out' = out
         ELSE /\ trace' = Append(trace, "goto_fail")
              /\ out' = Append(out, <<"Waiting for server...", i>>)
              /\ pc' = "sleep_poll"
    /\ UNCHANGED <<env, run, i, driver, browser, raised, raisedAt, controls,
                   writes, files, prev>>

\* time.sleep(2) in the except clause, then the loop head takes the next i.
PollSleep ==
    /\ pc = "sleep_poll"
    /\ trace' = Append(trace, "sleep_poll")
    /\ IF LoopExhausted(i + 1)
         THEN /\ pc' = "raise_else"
              /\ i' = i
         ELSE /\ pc' = "goto"
              /\ i' = i + 1
    /\ UNCHANGED <<env, run, driver, browser, raised, raisedAt, controls, out,
                   writes, files, prev>>

\* else: raise Exception("Server failed to start")
\* Variant: the else clause is missing and the script goes on.
ServerFailedFallThrough ==
    /\ pc = "raise_else"
    /\ pc' = "fill"
    /\ UNCHANGED <<env, run, i, driver, browser, raised, raisedAt, controls,
                   trace, out, writes, files, prev>>

ServerFailed ==
    /\ pc = "raise_else"
    /\ Propagate("Server failed to start", "poll")
    /\ UNCHANGED <<env, run, i, driver, browser, controls, trace, out, writes,
                   files, prev>>

\* print("Filling URL..."); page.fill('input[type="url"]', test_video_url)
\* Variant: the error of page.fill is caught and ignored.
FillSwallowError ==
    /\ pc = "fill"
    /\ out' = Append(out, <<"Filling URL...">>)
    /\ trace' = IF Fails("fill") THEN trace ELSE Append(trace, "fill")
    /\ pc' = "click"
    /\ UNCHANGED <<env, run, i, driver, browser, raised, raisedAt, controls,
                   writes, files, prev>>

Fill ==
    /\ pc = "fill"
    /\ out' = Append(out, <<"Filling URL...">>)
    /\ IF Fails("fill")
         THEN /\ Propagate("PlaywrightError", "fill")
              /\ trace' = trace
         ELSE /\ trace' = Append(trace, "fill")
              /\ pc' = "click"
              /\ NoRaise
    /\ UNCHANGED <<env, run, i, driver, browser, controls, writes, files, prev>>

\* print("Starting stream..."); page.click('button:has-text("Start Streaming")')
Click ==
    /\ pc = "click"
    /\ out' = Append(out, <<"Starting stream...">>)
    /\ IF Fails("click")
         THEN /\ Propagate("PlaywrightError", "click")
              /\ trace' = trace
         ELSE /\ trace' = Append(trace, "click")
              /\ pc' = "wait_video"
              /\ NoRaise
    /\ UNCHANGED <<env, run, i, driver, browser, controls, writes, files, prev>>

\* print("Waiting for video..."); page.wait_for_selector('video', timeout=10000)
\* Variant: the wait has no timeout and blocks while the element is absent.
WaitVideoNoTimeout ==
    /\ pc = "wait_video"
    /\ IF Fails("wait_video")
         THEN UNCHANGED <<pc, trace, out, raised, raisedAt>>
         ELSE /\ out' = Append(out, <<"Waiting for video...">>)
              /\ trace' = Append(trace, "wait_video")
              /\ pc' = "sleep_metadata"
              /\ NoRaise
    /\ UNCHANGED <<env, run, i, driver, browser, controls, writes, files, prev>>

WaitVideo ==
    /\ pc = "wait_video"
    /\ out' = Append(out, <<"Waiting for video...">>)
    /\ IF Fails("wait_video")
         THEN /\ Propagate("PlaywrightError", "wait_video")
              /\ trace' = trace
         ELSE /\ trace' = Append(trace, "wait_video")
              /\ pc' = "sleep_metadata"
              /\ NoRaise
    /\ UNCHANGED <<env, run, i, driver, browser, controls, writes, files, prev>>

\* time.sleep(2)
\* Variant: the visibility check is made before the mouse moves.
SleepMetadataThenCheck ==
    /\ pc = "sleep_metadata"
    /\ trace' = Append(trace, "sleep_metadata")
    /\ pc' = "check"
    /\ UNCHANGED <<env, run, i, driver, browser, raised, raisedAt, controls, out,
                   writes, files, prev>>

SleepMetadata ==
    /\ pc = "sleep_metadata"
    /\ trace' = Append(trace, "sleep_metadata")
    /\ pc' = "move1"
    /\ UNCHANGED <<env, run, i, driver, browser, raised, raisedAt, controls, out,
                   writes, files, prev>>

\* print("Hovering to show controls..."); page.mouse.move(640, 360)
MouseMove1 ==
    /\ pc = "move1"
    /\ out' = Append(out, <<"Hovering to show controls...">>)
    /\ IF Fails("move1")
         THEN /\ Propagate("PlaywrightError", "move1")
              /\ trace' = trace
         ELSE /\ trace' = Append(trace, "move1")
              /\ pc' = "move2"
              /\ NoRaise
    /\ UNCHANGED <<env, run, i, driver, browser, controls, writes, files, prev>>

\* page.mouse.move(650, 370)
MouseMove2 ==
    /\ pc = "move2"
    /\ IF Fails("move2")
         THEN /\ Propagate("PlaywrightError", "move2")
              /\ trace' = trace
         ELSE /\ trace' = Append(trace, "move2")
              /\ pc' = "sleep_transition"
              /\ NoRaise
    /\ UNCHANGED <<env, run, i, driver, browser, controls, out, writes, files,
                   prev>>

\* time.sleep(1)
SleepTransition ==
    /\ pc = "sleep_transition"
    /\ trace' = Append(trace, "sleep_transition")
    /\ pc' = "check"
    /\ UNCHANGED <<env, run, i, driver, browser, raised, raisedAt, controls, out,
                   writes, files, prev>>

\* controls = page.locator(...); if controls.is_visible(): print / else: print
\* Variant: hidden controls are an error (an assertion).
CheckControlsStrict ==
    /\ pc = "check"
    /\ IF Fails("is_visible") \/ ~env.visible
         THEN /\ Propagate("PlaywrightError", "is_visible")
              /\ UNCHANGED <<controls, trace, out>>
         ELSE /\ controls' = "visible"
              /\ out' = Append(out, <<"Controls are visible!">>)
              /\ trace' = Append(trace, "is_visible")
              /\ pc' = "screenshot"
              /\ NoRaise
    /\ UNCHANGED <<env, run, i, driver, browser, writes, files, prev>>

CheckControls ==
    /\ pc = "check"
    /\ IF Fails("is_visible")
         THEN /\ Propagate("PlaywrightError", "is_visible")
              /\ UNCHANGED <<controls, trace, out>>
         ELSE /\ controls' = IF env.visible THEN "visible" ELSE "hidden"
              /\ out' = Append(out, IF env.visible
                                      THEN <<"Controls are visible!">>
                                      ELSE <<"Controls NOT visible!">>)
              /\ trace' = Append(trace, "is_visible")
              /\ pc' = "screenshot"
              /\ NoRaise
    /\ UNCHANGED <<env, run, i, driver, browser, writes, files, prev>>

\* print("Taking screenshot..."); page.screenshot(path="verification_controls.png")
\* Variant: a second file is written beside the screenshot.
ScreenshotWithDebugCopy ==
    /\ pc = "screenshot"
    /\ out' = Append(out, <<"Taking screenshot...">>)
    /\ IF Fails("screenshot")
         THEN /\ Propagate("PlaywrightError", "screenshot")
              /\ UNCHANGED <<trace, writes, files>>
         ELSE /\ files' = files \cup {ScreenshotPath, "debug.png"}
              /\ writes' = writes \o <<ScreenshotPath, "debug.png">>
              /\ trace' = Append(trace, "screenshot")
              /\ pc' = "close"
              /\ NoRaise
    /\ UNCHANGED <<env, run, i, driver, browser, controls, prev>>

\* Variant: the screenshot refuses to overwrite an existing file.
ScreenshotExclusive ==
    /\ pc = "screenshot"
    /\ out' = Append(out, <<"Taking screenshot...">>)
    /\ IF Fails("screenshot") \/ ScreenshotPath \in files
         THEN /\ Propagate("PlaywrightError", "screenshot")
              /\ UNCHANGED <<trace, writes, files>>
         ELSE /\ files' = files \cup {ScreenshotPath}
              /\ writes' = Append(writes, ScreenshotPath)
              /\ trace' = Append(trace, "screenshot")
              /\ pc' = "close"
              /\ NoRaise
    /\ UNCHANGED <<env, run, i, driver, browser, controls, prev>>

Screenshot ==
    /\ pc = "screenshot"
    /\ out' = Append(out, <<"Taking screenshot...">>)
    /\ IF Fails("screenshot")
         THEN /\ Propagate("PlaywrightError", "screenshot")
              /\ UNCHANGED <<trace, writes, files>>
         ELSE /\ files' = files \cup {ScreenshotPath}
              /\ writes' = Append(writes, ScreenshotPath)
              /\ trace' = Append(trace, "screenshot")
              /\ pc' = "close"
              /\ NoRaise
    /\ UNCHANGED <<env, run, i, driver, browser, controls, prev>>

\* browser.close(), then run() returns
Close ==
    /\ pc = "close"
    /\ IF Fails("close")
         THEN /\ Propagate("PlaywrightError", "close")
              /\ UNCHANGED <<browser, trace>>
         ELSE /\ browser' = "closed"
              /\ trace' = Append(trace, "close")
              /\ pc' = "exit"
              /\ NoRaise
    /\ UNCHANGED <<env, run, i, driver, controls, out, writes, files, prev>>

\* Leaving the with block: the driver is stopped, which takes down a browser
\* that run() left open; an exception in flight ends the process with a
\* traceback.
Exit ==
    /\ pc = "exit"
    /\ driver' = "stopped"
    /\ browser' = IF browser = "open" THEN "killed" ELSE browser
    /\ pc' = IF raised = "none" THEN "done" ELSE "failed"
    /\ UNCHANGED <<env, run, i, raised, raisedAt, controls, trace, out, writes,
                   files, prev>>

Terminal == pc \in {"done", "failed"}

\* What one invocation leaves behind for an observer.
Summary ==
    [pc |-> pc, raised |-> raised, raisedAt |-> raisedAt, trace |-> trace,
     out |-> out, writes |-> writes, files |-> files, browser |-> browser,
     driver |-> driver]

\* The script is started again in a new process, in the same directory and
\* against a server that behaves the same way.
Rerun ==
    /\ Terminal
    /\ run < MaxRuns
    /\ prev' = Append(prev, Summary)
    /\ run' = run + 1
    /\ pc' = "enter"
    /\ i' = 0
    /\ driver' = "none"
    /\ browser' = "none"
    /\ raised' = "none"
    /\ raisedAt' = "none"
    /\ controls' = "unknown"
    /\ trace' = <<>>
    /\ out' = <<>>
    /\ writes' = <<>>
    /\ UNCHANGED <<env, files>>

\* One statement of the script.
Step ==
    \/ Enter
    \/ Launch
    \/ NewPage
    \/ Goto
    \/ PollSleep
    \/ ServerFailed
    \/ Fill
    \/ Click
    \/ WaitVideo
    \/ SleepMetadata
    \/ MouseMove1
    \/ MouseMove2
    \/ SleepTransition
    \/ CheckControls
    \/ Screenshot
    \/ Close
    \/ Exit

Next == Step \/ Rerun

Spec == Init /\ [][Next]_vars

\* The interpreter keeps executing the script: every call returns or raises
\* and every sleep returns.
FairSpec == Spec /\ WF_vars(Step)

----------------------------------------------------------------------------
\* Observations on the record of the current invocation.

Count(x) == Cardinality({k \in DOMAIN trace : trace[k] = x})

Did(x) == \E k \in DOMAIN trace : trace[k] = x

Attempts == Count("goto_ok") + Count("goto_fail")

PollLabels == {"goto_fail", "sleep_poll"}

PostStepSet == {PostSteps[k] : k \in DOMAIN PostSteps}

IsPrefix(s, t) ==
    /\ Len(s) <= Len(t)
    /\ \A k \in DOMAIN s : s[k] = t[k]

NotPoll(x) == x \notin PollLabels

\* The whole sequence of a run whose first navigation attempt succeeds.
Canonical == <<"launch", "new_page", "goto_ok">> \o PostSteps

\* Position of a step in PostSteps.
PostIndex(x) == CHOOSE k \in DOMAIN PostSteps : PostSteps[k] = x

----------------------------------------------------------------------------
\* C1: once all 30 navigation attempts have failed, the run is in the
\* sleep after the last failure, at the raise, or has ended with the
\* 'Server failed to start' failure; no form fill, click, video wait, mouse
\* move, visibility check, screenshot or close has been performed.
C1_ServerNeverReachable ==
    (Count("goto_fail") = MaxAttempts) =>
        /\ pc \in {"sleep_poll", "raise_else", "exit", "failed"}
        /\ ~Did("goto_ok")
        /\ \A k \in DOMAIN trace : trace[k] \notin PostStepSet
        /\ writes = <<>>
        /\ controls = "unknown"
        /\ (pc \in {"exit", "failed"} =>
               raised = "Server failed to start" /\ raisedAt = "poll")

C1_Witness ==
    /\ pc = "failed"
    /\ raised = "Server failed to start"
    /\ Count("goto_fail") = MaxAttempts

\* C2: at most 30 navigation attempts are made, and every failed attempt is
\* followed by exactly one 2-second sleep (the next recorded call, or the
\* call the script is about to make).
C2_BoundedPolling ==
    /\ Attempts <= MaxAttempts
    /\ \A k \in DOMAIN trace :
          /\ (trace[k] = "goto_fail" =>
                 IF k < Len(trace) THEN trace[k + 1] = "sleep_poll"
                                   ELSE pc = "sleep_poll")
          /\ (trace[k] = "sleep_poll" => k > 1 /\ trace[k - 1] = "goto_fail")

C2_Witness == Attempts = MaxAttempts /\ Count("sleep_poll") = MaxAttempts

\* C3: the visibility check raises only if the is_visible call itself
\* raises, never because of its result; with either result the run has
\* printed the matching diagnostic, goes on to the screenshot and the close,
\* and a run that evaluated the check ends normally unless the screenshot or
\* the close raises.
C3_VisibilityCheckNeverFails ==
    /\ (raisedAt = "is_visible" => Fails("is_visible"))
    /\ (Did("sleep_transition") /\ pc # "check" /\ ~Fails("is_visible") =>
           /\ Did("is_visible")
           /\ controls = (IF env.visible THEN "visible" ELSE "hidden")
           /\ Cardinality({k \in DOMAIN out :
                  out[k] \in {<<"Controls are visible!">>,
                              <<"Controls NOT visible!">>}}) = 1
           /\ \E k \in DOMAIN out :
                  out[k] = (IF controls = "visible"
                              THEN <<"Controls are visible!">>
                              ELSE <<"Controls NOT visible!">>)
           /\ pc \in {"screenshot", "close", "exit", "done", "failed"}
           /\ (pc \in {"close", "exit", "done"} /\ raised = "none" =>
                  Did("screenshot"))
           /\ (Terminal =>
                  \/ /\ pc = "done"
                     /\ raised = "none"
                     /\ Did("screenshot")
                     /\ Did("close")
                  \/ /\ pc = "failed"
                     /\ raisedAt \in {"screenshot", "close"}
                     /\ Fails(raisedAt)))

C3_Witness ==
    /\ pc = "done"
    /\ controls = "hidden"
    /\ raised = "none"
    /\ \E k \in DOMAIN out : out[k] = <<"Controls NOT visible!">>

\* C4: every invocation that has started eventually reaches a terminal
\* state, normal completion or a raised failure.
C4_Terminates == (pc = "enter") ~> Terminal

C4_Witness == Terminal /\ run = 1 /\ Attempts > 1

\* C5: in every terminal state of an invocation that launched a browser,
\* run() has closed that browser with browser.close().
C5_BrowserClosedByRun == (Terminal /\ Did("launch")) => browser = "closed"

\* C6: when fill, click, the video wait or the screenshot raises, the error
\* is in flight as an uncaught error, the run halts there: no step at or
\* after the failing one has been performed, and no screenshot has been
\* written when fill, click or the video wait failed.  A step the
\* environment makes fail is never passed.
C6_FailurePropagates ==
    /\ \A s \in {"fill", "click", "wait_video", "screenshot"} :
          /\ (raisedAt = s =>
                 /\ raised = "PlaywrightError"
                 /\ pc \in {"exit", "failed"}
                 /\ \A k \in DOMAIN trace :
                       trace[k] \in PostStepSet =>
                           PostIndex(trace[k]) < PostIndex(s)
                 /\ writes = <<>>)
          /\ (Fails(s) =>
                 /\ ~Did(s)
                 /\ \A k \in DOMAIN trace :
                       trace[k] \in PostStepSet =>
                           PostIndex(trace[k]) < PostIndex(s)
                 /\ (Terminal /\ Did("goto_ok") =>
                        pc = "failed" /\ raisedAt = s))

C6_Witness ==
    /\ pc = "failed"
    /\ raisedAt = "wait_video"
    /\ Did("click")
    /\ writes = <<>>

\* C7: the calls of a run occur in the fixed order launch, open page,
\* polling (failed attempt, sleep)* and the successful attempt, then fill,
\* click, video wait, sleep, two mouse moves, sleep, visibility check,
\* screenshot, close; each is preceded by all of its predecessors and none
\* outside the polling loop occurs twice.
C7_FixedOrder ==
    /\ IsPrefix(SelectSeq(trace, NotPoll), Canonical)
    /\ \A k \in DOMAIN trace :
          trace[k] \in PollLabels =>
              /\ k > 2
              /\ \A j \in 1..(k - 1) :
                    trace[j] \in {"launch", "new_page"} \cup PollLabels
    /\ \A k \in DOMAIN trace :
          trace[k] = "goto_ok" =>
              k > 2 /\ trace[k - 1] \in {"new_page", "sleep_poll"}
    /\ (pc \notin {"enter", "launch", "exit", "failed"} => Did("launch"))

C7_Witness ==
    /\ pc = "done"
    /\ SelectSeq(trace, NotPoll) = Canonical
    /\ Count("goto_fail") = 2

\* C8: a run writes at most one file, the screenshot at
\* verification_controls.png; a run that completes normally writes it
\* exactly once; it is written only after a navigation succeeded, the video
\* element was found and the visibility check was evaluated.
C8_OneArtifact ==
    /\ Len(writes) <= 1
    /\ \A k \in DOMAIN writes : writes[k] = "verification_controls.png"
    /\ files \subseteq {"verification_controls.png"}
    /\ (pc = "done" => Len(writes) = 1 /\ files = {"verification_controls.png"})
    /\ (writes # <<>> =>
           /\ Did("goto_ok")
           /\ Did("wait_video")
           /\ Did("is_visible")
           /\ controls # "unknown")

C8_Witness == pc = "done" /\ writes = <<"verification_controls.png">>

\* C9: a second invocation against a server that behaves the same ends in
\* the same terminal state after the same calls and the same output as the
\* first, leaves the same files as the first (one screenshot at most, not
\* one per run), and no invocation ends with its browser session or its
\* driver still alive.
C9_Idempotent ==
    /\ (Terminal => browser # "open" /\ driver = "stopped")
    /\ (Terminal /\ run > 1 =>
           /\ pc = prev[run - 1].pc
           /\ raised = prev[run - 1].raised
           /\ raisedAt = prev[run - 1].raisedAt
           /\ trace = prev[run - 1].trace
           /\ out = prev[run - 1].out
           /\ writes = prev[run - 1].writes
           /\ files = prev[run - 1].files
           /\ browser = prev[run - 1].browser
           /\ Cardinality(files) <= 1)
    /\ (run > 1 /\ pc = "enter" => browser = "none" /\ driver = "none")

C9_Witness ==
    /\ run = 2
    /\ pc = "done"
    /\ prev[1].pc = "done"
    /\ files = {ScreenshotPath}

\* C10: if the first successful attempt is number k, exactly k attempts and
\* k-1 sleeps were made, no sleep follows the success and the next call is
\* the form fill; if all 30 attempts fail, 30 sleeps are made before the
\* failure is raised.
C10_PollingCounts ==
    /\ (Did("goto_ok") =>
           /\ Count("goto_ok") = 1
           /\ Attempts = Count("goto_fail") + 1
           /\ Attempts = i + 1
           /\ Attempts = env.readyAt
           /\ Count("sleep_poll") = Attempts - 1
           /\ \A k \in DOMAIN trace :
                 trace[k] = "goto_ok" =>
                     /\ \A j \in (k + 1)..Len(trace) : trace[j] \notin PollLabels
                     /\ IF k < Len(trace) THEN trace[k + 1] = "fill"
                                          ELSE pc \in {"fill", "exit", "failed"}
                     /\ (pc \in {"exit", "failed"} /\ k = Len(trace) =>
                            raisedAt = "fill"))
    /\ (~Did("goto_ok") /\ pc = "goto" =>
           Count("goto_fail") = i /\ Count("sleep_poll") = i)
    /\ (pc = "raise_else" \/ raised = "Server failed to start" =>
           /\ Count("goto_fail") = MaxAttempts
           /\ Count("sleep_poll") = MaxAttempts
           /\ trace[Len(trace)] = "sleep_poll")

C10_Witness ==
    /\ Count("goto_ok") = 1
    /\ Count("goto_fail") = MaxAttempts - 1
    /\ Count("sleep_poll") = MaxAttempts - 1
    /\ Did("fill")

====
